---- MODULE Spec2Model ----
(***************************************************************************)
(* now-cli: the scale command (src/unnamed/part_000) and the tail of the   *)
(* deploy command (sync in src/src/providers/sh/commands/inspect.js):      *)
(* the build-event loop, the two waitForScale polling loops, the onExit     *)
(* interruption handler, and the scale command's reading of its arguments. *)
(*                                                                         *)
(* Time is counted in ticks of 500 ms.  Synchronous code takes no time;    *)
(* the clock advances only while a fetch or a sleep is pending.            *)
(***************************************************************************)
EXTENDS Integers, Sequences, FiniteSets

\* ------------------------------------------------------------- bounds
MaxInstances == 1      \* largest numeric <min>/<max>; counts range to MaxInstances + 1
MaxTimeout == 3        \* largest verification timeout, in ticks
MaxFetchTime == 1      \* longest duration of one snapshot fetch, in ticks
MaxEvents == 3         \* longest build-event stream
MaxDigits == 2         \* longest numeric argument of the scale command, in digits

\* ---------------------------------------------------------- constants
AUTO == -1             \* const AUTO = 'auto' (a value outside the numbers)
ScaleCheckInterval == 1    \* checkInterval: 500 (ms)
DeployCheckInterval == 2   \* const checkInterval = 1000 (ms)
TwoMinutes == MaxTimeout   \* ms('2m'), cut down to the model's horizon

Regions == {"sfo1", "bru1"}
Counts == 0..(MaxInstances + 1)
Signals == {"SIGTERM", "SIGINT"}

\* every snapshot the instances endpoint can answer: some regions, a count each
Snapshots == UNION {[S -> Counts] : S \in SUBSET Regions}
NoData == [r \in {} |-> 0]

\* the key orders of a constraints object (Object.keys / Set insertion order)
DcOrders(nonEmpty) ==
  {s \in UNION {[1..n -> Regions] : n \in 0..Cardinality(Regions)} :
     /\ \A i, j \in DOMAIN s : i # j => s[i] # s[j]
     /\ nonEmpty => Len(s) > 0}

Range(s) == {s[i] : i \in DOMAIN s}

\* the <min>, <max> pairs main can hand to setScale: each numeric or "auto";
\* the platform answers 400 wrong_min_max_relation when min > max
ScalePairs ==
  {p \in [min : (0..MaxInstances) \cup {AUTO}, max : (0..MaxInstances) \cup {AUTO}] :
     (p.min # AUTO /\ p.max # AUTO) => p.min <= p.max}

\* ms(argv['--verify-timeout']): none at all, the shortest, or the longest
Timeouts == {0, 1, MaxTimeout}

\* the presets of a created deployment (deployment.scale): numeric min
DeployPairs == {p \in ScalePairs : p.min # AUTO}

VARIABLES
  argv,              \* argv._ of the scale command, each argument a sequence of
                     \* characters (<<>> where the run starts after the parsing)
  verifyTimeout,     \* argv['--verify-timeout']: <<>> if not given, else <<its word>>
  lookups,           \* findDeployment requests issued
  cmd,               \* which command runs: "scale" | "deploy"
  pc,                \* where the command's async function is suspended
  scale,             \* scaleArgs / deployment.scale: dc -> [min, max]
  dcOrder,           \* Object.keys(scale), in order
  timeout,           \* waitForScale's timeout, in ticks
  noVerify,          \* argv['--no-verify'] / noVerify
  depType,           \* deployment.type / deploymentType
  readyState,        \* deployment.readyState (deploy)
  clock,             \* Date.now()
  start,             \* waitForScale: const start
  intendedScaleDcs,  \* scale's waitForScale: the Set of dcs still to match
  remainingMatches,  \* deploy's waitForScale: the Set of dcs still to match
  data,              \* the last snapshot fetched (data / instances)
  remaining,         \* waitDcs: the Set shown by the spinner
  spinner,           \* whether a wait() spinner is active
  listeners,         \* the process events onExit_ is registered for
  exitFlag,          \* onExit: let exit
  pendingExit,       \* <<code>> once exit(code) is called: process.exit(code) is due
  exitCode,          \* <<code>> once the process has exited
  alive,             \* the process runs
  returned,          \* <<value>> once main has returned
  waitResult,        \* how waitForScale ended: returned or the error thrown
  threw,             \* the error main (or sync's executor) ended with
  stream,            \* the build events the source has yet to deliver
  streamEnd,         \* what the source does after them: "end" | "fail"
  output,            \* everything printed, in order
  fetches,           \* GET .../instances requests issued
  sleeps,            \* sleep(checkInterval) calls
  mutations,         \* PATCH .../instances requests issued
  delivered,         \* the events the loop has taken from the stream, in order
  seen,              \* the dcs some snapshot of this wait has reported
  registrations,     \* calls of onExit
  aborts             \* runs of the callback given to onExit

vars == <<argv, verifyTimeout, lookups, cmd, pc, scale, dcOrder, timeout, noVerify, depType, readyState, clock,
          start, intendedScaleDcs, remainingMatches, data, remaining, spinner,
          listeners, exitFlag, pendingExit, exitCode, alive, returned, waitResult,
          threw, stream, streamEnd, output, fetches, sleeps, mutations, delivered,
          seen, registrations, aborts>>

\* groups for UNCHANGED
argVars == <<argv, verifyTimeout, lookups>>
inputVars == <<argVars, cmd, scale, dcOrder, timeout, noVerify, depType, readyState, streamEnd>>
exitVars == <<pendingExit, exitCode, alive>>
onExitVars == <<listeners, exitFlag, registrations, aborts>>
streamVars == <<stream, delivered>>

\* ------------------------------------------------------ pure functions

\* JS `a < b` on a number and a min that may be the string 'auto': 'auto' converts
\* to NaN and every comparison with NaN is false
JsLess(a, b) == IF a = AUTO \/ b = AUTO THEN FALSE ELSE a < b

\* mutant: the bounds taken as exclusive
isInstanceCountBetween_exclusive(v, min, max) ==
  IF v <= min THEN FALSE
  ELSE IF (IF max = AUTO THEN FALSE ELSE v >= max) THEN FALSE
  ELSE TRUE

\* mutant: "auto" as a max taken for 0 instead of Infinity
isInstanceCountBetween_autoIsZero(v, min, max) ==
  IF JsLess(v, min) THEN FALSE
  ELSE IF v > (IF max = AUTO THEN 0 ELSE max) THEN FALSE
  ELSE TRUE

\* mutant: the max not looked at
isInstanceCountBetween_minOnly(v, min, max) ==
  IF JsLess(v, min) THEN FALSE ELSE TRUE

isInstanceCountBetween(v, min, max) ==
  IF JsLess(v, min) THEN FALSE
  ELSE IF (IF max = AUTO THEN FALSE ELSE v > max) THEN FALSE
  ELSE TRUE

\* Math.max(1, scalePreset.min)
MathMax(a, b) == IF a >= b THEN a ELSE b

matchMinPresets(scalePreset, count) == count >= MathMax(1, scalePreset.min)

\* the elements of the ordered keys that are still in the Set, in order
RECURSIVE InOrder(_, _)
InOrder(order, set) ==
  IF order = <<>> THEN <<>>
  ELSE (IF Head(order) \in set THEN <<Head(order)>> ELSE <<>>) \o InOrder(Tail(order), set)

\* mutant: the for loop also left at the first dc that matches
RECURSIVE ScaledDcs_breakOnMatch(_, _, _)
ScaledDcs_breakOnMatch(dcs, d, sc) ==
  IF dcs = <<>> THEN <<>>
  ELSE LET dc == Head(dcs) IN
    IF dc \notin DOMAIN d THEN <<>>
    ELSE IF isInstanceCountBetween(d[dc], sc[dc].min, sc[dc].max) THEN <<dc>>
    ELSE ScaledDcs_breakOnMatch(Tail(dcs), d, sc)

\* scale's waitForScale, the for loop over intendedScaleDcs: the dcs that match,
\* in order; the loop breaks at the first dc the snapshot lacks
RECURSIVE ScaledDcs(_, _, _)
ScaledDcs(dcs, d, sc) ==
  IF dcs = <<>> THEN <<>>
  ELSE LET dc == Head(dcs) IN
    IF dc \notin DOMAIN d THEN <<>>
    ELSE (IF isInstanceCountBetween(d[dc], sc[dc].min, sc[dc].max) THEN <<dc>> ELSE <<>>)
           \o ScaledDcs(Tail(dcs), d, sc)

\* one output line per dc of the sequence
RECURSIVE Verified(_)
Verified(dcs) ==
  IF dcs = <<>> THEN <<>> ELSE <<<<"Verified", Head(dcs)>>>> \o Verified(Tail(dcs))

\* exit(code) of util/exit: process.exit(code) is left to a timer and the promise
\* returned never settles; of several timers the first set fires first
exit(code) == IF pendingExit = <<>> THEN <<code>> ELSE pendingExit

\* build events: [type, value], value the state of a state-change or the text
StateChange(v) == [type |-> "state-change", value |-> v]
Text(t) == [type |-> t, value |-> "a"]
Events ==
  {StateChange(v) : v \in {"BUILDING", "READY", "ERROR"}}
    \cup {Text(t) : t \in {"build-start", "command", "stdout", "stderr"}}

IsTerminal(e) == e.type = "state-change" /\ e.value \in {"READY", "ERROR"}
HasTerminal(s) == \E i \in DOMAIN s : IsTerminal(s[i])

\* every stream of at most n events
StreamsUpTo(n) == UNION {[1..k -> Events] : k \in 0..n}

\* a few streams: one per way the event loop can end
FewStreams ==
  {<<StateChange("READY")>>, <<Text("stdout"), StateChange("ERROR")>>,
   <<Text("build-start")>>}

\* mutant: every state-change taken for READY
isReady_anyStateChange(event) == event.type = "state-change"

\* mutant: the ERROR check left out
isError_never(event) == FALSE

\* the loop's two stop conditions
isReady(event) == event.type = "state-change" /\ event.value = "READY"
isError(event) == event.type = "state-change" /\ event.value = "ERROR"

\* what the loop prints for an event that does not end it
Forwarded(e) ==
  IF e.type = "build-start" THEN <<<<"Building", "">>>>
  ELSE IF e.type = "command" THEN <<<<"command", e.value>>>>
  ELSE IF e.type = "stdout" \/ e.type = "stderr" THEN <<<<"line", e.value>>>>
  ELSE <<>>

\* ---------------------------------------------------------------- Init

InitCommon ==
  /\ clock = 0 /\ start = 0
  /\ intendedScaleDcs = {} /\ remainingMatches = {} /\ data = NoData
  /\ remaining = {} /\ spinner = FALSE
  /\ listeners = {} /\ exitFlag = FALSE
  /\ pendingExit = <<>> /\ exitCode = <<>> /\ alive = TRUE
  /\ returned = <<>> /\ waitResult = "none" /\ threw = "none"
  /\ output = <<>>
  /\ fetches = 0 /\ sleeps = 0 /\ mutations = 0 /\ delivered = <<>> /\ seen = {}
  /\ registrations = 0 /\ aborts = 0

\* the scale command, its arguments parsed and its deployment found
InitScale ==
  /\ cmd = "scale" /\ pc = "setScale"
  /\ argv = <<>> /\ verifyTimeout = <<>> /\ lookups = 0
  /\ dcOrder \in DcOrders(TRUE)
  /\ \E p \in ScalePairs : scale = [dc \in Range(dcOrder) |-> p]
  /\ noVerify \in BOOLEAN
  /\ timeout \in IF noVerify THEN {TwoMinutes} ELSE Timeouts
  /\ depType \in {"NPM", "BINARY"}
  /\ readyState = "READY"
  /\ stream = <<>> /\ streamEnd = "end"
  /\ InitCommon

\* ------------------------------------------------- the onExit handler

\* the callback main gives to onExit: cancelVerifyWait(); log(...); exit(0)
\* exit(code) leaves process.exit(code) to a timer; the first timer set fires first
AbortCallback ==
  /\ spinner' = FALSE
  /\ output' = Append(output, <<"Verification aborted", "">>)
  /\ pendingExit' = exit(0)
  /\ aborts' = aborts + 1

\* mutant: onExit_ without its `if (exit) return`
onExit_noGuard == AbortCallback /\ exitFlag' = TRUE

\* onExit_: if (exit) return; fn(); exit = true
onExit_ ==
  IF exitFlag
  THEN UNCHANGED <<spinner, output, pendingExit, aborts, exitFlag>>
  ELSE AbortCallback /\ exitFlag' = TRUE

\* ------------------------------------------------- the scale command

\* mutant: main without its `finally { cancelExit() }`
ScaleWaitThrows_noFinally(err) ==
  /\ waitResult' = err
  /\ spinner' = FALSE
  /\ listeners' = listeners
  /\ threw' = err
  /\ pc' = "done"
  /\ UNCHANGED <<output, returned, mutations>>

\* mutant: the catch without its cancelVerifyWait()
ScaleWaitThrows_noCancel(err) ==
  /\ waitResult' = err
  /\ spinner' = spinner
  /\ listeners' = {}
  /\ threw' = err
  /\ pc' = "done"
  /\ UNCHANGED <<output, returned, mutations>>

\* mutant: the catch also sends a PATCH that takes the scale rules back
ScaleWaitThrows_rollback(err) ==
  /\ waitResult' = err
  /\ spinner' = FALSE
  /\ listeners' = {}
  /\ threw' = err
  /\ pc' = "done"
  /\ mutations' = mutations + 1
  /\ UNCHANGED <<output, returned>>

\* main, from a failed waitForScale on: catch { cancelVerifyWait(); throw err }
\* finally { cancelExit() }
ScaleWaitThrows(err) ==
  /\ waitResult' = err
  /\ spinner' = FALSE
  /\ listeners' = {}
  /\ threw' = err
  /\ pc' = "done"
  /\ UNCHANGED <<output, returned, mutations>>

\* waitForScale, top of the loop: throw on the deadline, else issue the fetch
ScaleLoopTop(now) ==
  IF start + timeout <= now
  THEN /\ ScaleWaitThrows("Timeout")
       /\ UNCHANGED fetches
  ELSE /\ pc' = "fetch"
       /\ fetches' = fetches + 1
       /\ UNCHANGED <<waitResult, spinner, listeners, threw, output, returned, mutations>>

\* await setScale(...) answers; then main up to its next await
SetScale ==
  /\ alive /\ cmd = "scale" /\ pc = "setScale"
  /\ mutations' = mutations + 1
  /\ \/ \* the PATCH succeeded: console.log(successMsg) on either path
        /\ output' = Append(output, <<"Scale rules saved", "">>)
        /\ IF depType = "BINARY" \/ noVerify
           THEN /\ pc' = "done" /\ returned' = <<0>>
                /\ UNCHANGED <<start, intendedScaleDcs, remaining, spinner, listeners,
                               exitFlag, registrations, waitResult, threw, fetches>>
           ELSE \* waitDcs, onExit, and waitForScale up to its first await
                /\ remaining' = Range(dcOrder)
                /\ registrations' = registrations + 1
                /\ exitFlag' = FALSE
                /\ start' = clock
                /\ intendedScaleDcs' = Range(dcOrder)
                /\ IF start' + timeout <= clock
                   THEN /\ waitResult' = "Timeout" /\ threw' = "Timeout"
                        /\ spinner' = FALSE /\ listeners' = {}
                        /\ pc' = "done" /\ UNCHANGED <<fetches, returned>>
                   ELSE /\ waitResult' = "running"
                        /\ spinner' = TRUE
                        /\ listeners' = Signals \cup {"exit"}
                        /\ pc' = "fetch" /\ fetches' = fetches + 1
                        /\ UNCHANGED <<threw, returned>>
     \/ \* 400 forbidden_min_instances, forbidden_max_instances, wrong_min_max_relation
        /\ output' = Append(output, <<"error", "400">>)
        /\ pc' = "done" /\ returned' = <<1>>
        /\ UNCHANGED <<start, intendedScaleDcs, remaining, spinner, listeners,
                       exitFlag, registrations, waitResult, threw, fetches>>
     \/ \* any other error is thrown on
        /\ pc' = "done" /\ threw' = "ScaleError"
        /\ UNCHANGED <<output, start, intendedScaleDcs, remaining, spinner, listeners,
                       exitFlag, registrations, waitResult, returned, fetches>>
  /\ UNCHANGED <<inputVars, clock, remainingMatches, data, exitVars, aborts,
                 streamVars, sleeps, seen>>

\* the fetch of waitForScale answers with a snapshot; the for loop, then the
\* return into main or the sleep
ScaleFetchDone ==
  /\ alive /\ cmd = "scale" /\ pc = "fetch"
  /\ \E d \in Snapshots, dt \in 0..MaxFetchTime :
       LET hits == ScaledDcs(InOrder(dcOrder, intendedScaleDcs), d, scale)
           left == intendedScaleDcs \ Range(hits)
       IN
       /\ data' = d
       /\ seen' = seen \cup DOMAIN d
       /\ clock' = clock + dt
       /\ intendedScaleDcs' = left
       \* onDCScaled -> cancelVerifyWait(id, instanceCount), once per match
       /\ remaining' = remaining \ Range(hits)
       /\ IF left = {}
          THEN \* return; cancelVerifyWait(); cancelExit(); success(...); return 0
               /\ waitResult' = "success"
               /\ spinner' = FALSE
               /\ listeners' = {}
               /\ output' = output \o Verified(hits) \o <<<<"Scale state verified", "">>>>
               /\ returned' = <<0>>
               /\ pc' = "done"
               /\ UNCHANGED sleeps
          ELSE /\ spinner' = IF hits = <<>> THEN spinner ELSE TRUE
               /\ output' = output \o Verified(hits)
               /\ sleeps' = sleeps + 1
               /\ pc' = "sleep"
               /\ UNCHANGED <<waitResult, listeners, returned>>
  /\ UNCHANGED <<inputVars, start, remainingMatches, exitFlag, registrations, aborts,
                 exitVars, threw, streamVars, fetches, mutations>>

\* the fetch of waitForScale fails: the error leaves waitForScale and main
ScaleFetchFails ==
  /\ alive /\ cmd = "scale" /\ pc = "fetch"
  /\ \E dt \in 0..MaxFetchTime : clock' = clock + dt
  /\ ScaleWaitThrows("FetchError")
  /\ UNCHANGED <<inputVars, start, intendedScaleDcs, remainingMatches, data, remaining,
                 exitFlag, registrations, aborts, exitVars, streamVars, fetches, sleeps,
                 seen>>

\* sleep(checkInterval) is over: the loop's next turn
ScaleSleepDone ==
  /\ alive /\ cmd = "scale" /\ pc = "sleep"
  /\ clock' = clock + ScaleCheckInterval
  /\ ScaleLoopTop(clock')
  /\ UNCHANGED <<inputVars, start, intendedScaleDcs, remainingMatches, data, remaining,
                 exitFlag, registrations, aborts, exitVars, streamVars, sleeps, seen>>

\* ------------------------------------------------ the deploy command

\* the deployment is created and its url printed; the streams and presets are
\* read only on the way through the build events
DeployInputs(streams, orders, pairs) ==
  /\ cmd = "deploy" /\ pc = "created"
  /\ argv = <<>> /\ verifyTimeout = <<>> /\ lookups = 0
  /\ depType \in {"static", "npm"}
  /\ readyState \in {"INITIALIZING", "READY"}
  /\ timeout = TwoMinutes
  /\ IF depType = "static" \/ readyState = "READY"
     THEN /\ stream = <<>> /\ streamEnd = "end" /\ noVerify = FALSE
          /\ dcOrder = <<>> /\ scale = NoData
     ELSE /\ stream \in streams
          /\ streamEnd \in IF HasTerminal(stream) THEN {"end"} ELSE {"end", "fail"}
          /\ noVerify \in BOOLEAN
          /\ dcOrder \in orders
          /\ \E p \in pairs : scale = [dc \in Range(dcOrder) |-> p]
  /\ InitCommon

InitDeploy == DeployInputs(FewStreams, DcOrders(FALSE), DeployPairs)

\* sync, the catch around waitForScale: every error is printed as a timeout
DeployWaitThrows(err, out) ==
  /\ waitResult' = err
  /\ output' = out \o <<<<"Instance verification timed out", "">>>>
  /\ pendingExit' = exit(1)
  /\ pc' = "halted"

\* deploy's waitForScale, top of the loop
DeployLoopTop(now) ==
  IF start + timeout <= now
  THEN \* cancelWait(); throw new Error('Timeout while verifying instance count (10m)')
       /\ spinner' = FALSE
       /\ DeployWaitThrows("Timeout", output)
       /\ UNCHANGED fetches
  ELSE /\ pc' = "fetch"
       /\ fetches' = fetches + 1
       /\ UNCHANGED <<spinner, waitResult, output, pendingExit>>

\* mutant: --no-verify not looked at
AfterBuild_alwaysVerify(out) ==
  /\ start' = clock
  /\ remainingMatches' = Range(dcOrder)
  /\ spinner' = TRUE
  /\ waitResult' = "running"
  /\ pc' = "fetch"
  /\ fetches' = fetches + 1
  /\ output' = out
  /\ UNCHANGED pendingExit

\* sync after the event loop: waitForScale unless --no-verify, then exit
AfterBuild(out) ==
  IF noVerify
  THEN /\ output' = Append(out, <<"Deployment ready", "">>)
       /\ pendingExit' = exit(0)
       /\ pc' = "halted"
       /\ UNCHANGED <<start, remainingMatches, spinner, waitResult, fetches>>
  ELSE /\ start' = clock
       /\ remainingMatches' = Range(dcOrder)
       /\ IF start' + timeout <= clock
          THEN /\ spinner' = FALSE
               /\ DeployWaitThrows("Timeout", out)
               /\ UNCHANGED fetches
          ELSE /\ spinner' = TRUE
               /\ waitResult' = "running"
               /\ pc' = "fetch"
               /\ fetches' = fetches + 1
               /\ output' = out
               /\ UNCHANGED pendingExit

\* sync from "Show build logs" to its first await
DeployStart ==
  /\ alive /\ cmd = "deploy" /\ pc = "created"
  /\ IF depType = "static"
     THEN /\ output' = Append(output, <<"Deployment complete!", "">>)
          /\ pendingExit' = exit(0)
          /\ pc' = "halted"
     ELSE IF readyState = "READY"
     THEN /\ output' = Append(output, <<"Deployment ready", "">>)
          /\ pendingExit' = exit(0)
          /\ pc' = "halted"
     ELSE /\ pc' = "events"
          /\ UNCHANGED <<output, pendingExit>>
  /\ UNCHANGED <<inputVars, clock, start, intendedScaleDcs, remainingMatches, data,
                 remaining, spinner, onExitVars, exitCode, alive, returned, waitResult,
                 threw, streamVars, fetches, sleeps, mutations, seen>>

\* for await (const event of events): the source delivers its next event
ReadEvent ==
  /\ alive /\ cmd = "deploy" /\ pc = "events"
  /\ stream # <<>>
  /\ stream' = Tail(stream)
  /\ delivered' = Append(delivered, Head(stream))
  /\ LET event == Head(stream) IN
     IF isReady(event)
     THEN AfterBuild(Append(output, <<"Build completed", "">>))
     ELSE IF isError(event)
     THEN /\ output' = Append(output, <<"Build failed", "">>)
          /\ pendingExit' = exit(1)
          /\ pc' = "halted"
          /\ UNCHANGED <<start, remainingMatches, spinner, waitResult, fetches>>
     ELSE /\ output' = output \o Forwarded(event)
          /\ UNCHANGED <<pc, pendingExit, start, remainingMatches, spinner, waitResult,
                         fetches>>
  /\ UNCHANGED <<inputVars, clock, intendedScaleDcs, data, remaining, onExitVars,
                 exitCode, alive, returned, threw, sleeps, mutations, seen>>

\* the source ends with no READY or ERROR delivered: the loop is left as after READY
StreamEnds ==
  /\ alive /\ cmd = "deploy" /\ pc = "events"
  /\ stream = <<>> /\ streamEnd = "end"
  /\ AfterBuild(output)
  /\ UNCHANGED <<inputVars, clock, intendedScaleDcs, data, remaining, onExitVars,
                 exitCode, alive, returned, threw, streamVars, sleeps, mutations, seen>>

\* the source fails: the error is thrown inside the async executor of sync's
\* Promise, which neither resolves nor rejects
StreamFails ==
  /\ alive /\ cmd = "deploy" /\ pc = "events"
  /\ stream = <<>> /\ streamEnd = "fail"
  /\ threw' = "ConnectionError"
  /\ pc' = "done"
  /\ UNCHANGED <<inputVars, clock, start, intendedScaleDcs, remainingMatches, data,
                 remaining, spinner, onExitVars, exitVars, returned, waitResult,
                 streamVars, output, fetches, sleeps, mutations, seen>>

\* getMatchingScalePresets(scale, instances, matchMinPresets); reading
\* instancesObj.instances of a dc the snapshot lacks throws a TypeError
getMatchingScalePresets(sc, d) ==
  {dc \in DOMAIN sc : matchMinPresets(sc[dc], d[dc])}

\* mutant: the Set rebuilt from every key of scale
notMatched_allKeys(rem, matches) == DOMAIN scale \ matches

\* remainingMatches = new Set([...remainingMatches].filter(dc => !matches.has(dc)))
notMatched(rem, matches) == rem \ matches

\* mutant: every match taken for a new one
newlyMatched_all(rem, matches) == matches

\* newMatches = new Set([...remainingMatches].filter(dc => matches.has(dc)))
newlyMatched(rem, matches) == rem \cap matches

\* the fetch of deploy's waitForScale answers with a snapshot
DeployFetchDone ==
  /\ alive /\ cmd = "deploy" /\ pc = "fetch"
  /\ \E d \in Snapshots, dt \in 0..MaxFetchTime :
       /\ data' = d
       /\ seen' = seen \cup DOMAIN d
       /\ clock' = clock + dt
       /\ IF ~(DOMAIN scale \subseteq DOMAIN d)
          THEN /\ DeployWaitThrows("TypeError", output)
               /\ UNCHANGED <<remainingMatches, spinner, sleeps>>
          ELSE LET matches == getMatchingScalePresets(scale, d)
                   newMatches == newlyMatched(remainingMatches, matches)
                   left == notMatched(remainingMatches, matches)
                   out == output \o Verified(InOrder(dcOrder, newMatches))
               IN
               /\ remainingMatches' = left
               /\ IF newMatches # {} /\ left = {}
                  THEN \* return null; output.success(`Deployment ready`); exit(0)
                       /\ waitResult' = "success"
                       /\ spinner' = FALSE
                       /\ output' = Append(out, <<"Deployment ready", "">>)
                       /\ pendingExit' = exit(0)
                       /\ pc' = "halted"
                       /\ UNCHANGED sleeps
                  ELSE /\ spinner' = IF newMatches # {} THEN TRUE ELSE spinner
                       /\ output' = out
                       /\ sleeps' = sleeps + 1
                       /\ pc' = "sleep"
                       /\ UNCHANGED <<waitResult, pendingExit>>
  /\ UNCHANGED <<inputVars, start, intendedScaleDcs, remaining, onExitVars, exitCode,
                 alive, returned, threw, streamVars, fetches, mutations>>

\* the fetch of deploy's waitForScale fails
DeployFetchFails ==
  /\ alive /\ cmd = "deploy" /\ pc = "fetch"
  /\ \E dt \in 0..MaxFetchTime : clock' = clock + dt
  /\ DeployWaitThrows("FetchError", output)
  /\ UNCHANGED <<inputVars, start, intendedScaleDcs, remainingMatches, data, remaining,
                 spinner, onExitVars, exitCode, alive, returned, threw, streamVars,
                 fetches, sleeps, mutations, seen>>

\* sleep(checkInterval) is over: the loop's next turn
DeploySleepDone ==
  /\ alive /\ cmd = "deploy" /\ pc = "sleep"
  /\ clock' = clock + DeployCheckInterval
  /\ DeployLoopTop(clock')
  /\ UNCHANGED <<inputVars, start, intendedScaleDcs, remainingMatches, data, remaining,
                 onExitVars, exitCode, alive, returned, threw, streamVars, sleeps,
                 mutations, seen>>

\* -------------------------------------------------------- environment

\* SIGINT or SIGTERM arrives: onExit_ if it listens, else the default action
Signal ==
  /\ alive /\ pc # "done"
  /\ \E sig \in Signals :
       IF sig \in listeners
       THEN /\ onExit_
            /\ UNCHANGED <<exitCode, alive>>
       ELSE /\ alive' = FALSE
            /\ exitCode' = <<128 + (IF sig = "SIGINT" THEN 2 ELSE 15)>>
            /\ UNCHANGED <<spinner, output, pendingExit, aborts, exitFlag>>
  /\ UNCHANGED <<inputVars, pc, clock, start, intendedScaleDcs, remainingMatches, data,
                 remaining, listeners, registrations, returned, waitResult, threw,
                 streamVars, fetches, sleeps, mutations, seen>>

\* the timer of exit(code) fires: process.exit(code) emits 'exit', then ends the process
ProcessExit ==
  /\ alive /\ pendingExit # <<>>
  /\ IF "exit" \in listeners
     THEN onExit_    \* a timer that exit(0) sets in here never fires
     ELSE UNCHANGED <<spinner, output, pendingExit, aborts, exitFlag>>
  /\ alive' = FALSE
  /\ exitCode' = pendingExit
  /\ UNCHANGED <<inputVars, pc, clock, start, intendedScaleDcs, remainingMatches, data,
                 remaining, listeners, registrations, returned, waitResult,
                 threw, streamVars, fetches, sleeps, mutations, seen>>

NextScale == SetScale \/ ScaleFetchDone \/ ScaleFetchFails \/ ScaleSleepDone

NextDeploy ==
  DeployStart \/ ReadEvent \/ StreamEnds \/ StreamFails \/ DeployFetchDone
    \/ DeployFetchFails \/ DeploySleepDone

NextEnv == Signal \/ ProcessExit

Init == InitScale \/ InitDeploy

Next == NextScale \/ NextDeploy \/ NextEnv

Spec == Init /\ [][Next]_vars

\* the deploy command alone, over every stream of at most MaxEvents events and one
\* preset
InitBuild ==
  DeployInputs(StreamsUpTo(MaxEvents), {<<"sfo1">>}, {[min |-> 1, max |-> 1]})

NextBuild == NextDeploy \/ NextEnv

SpecBuild == InitBuild /\ [][NextBuild]_vars

\* ------------------------------- the scale command: its arguments

MostArgs == 4          \* if (argv._.length > 4): "expects at most four arguments"

\* arguments as sequences of characters
AutoArg == <<"a", "u", "t", "o">>
AllArg == <<"a", "l", "l">>
LsArg == <<"l", "s">>
UrlArg == <<"u">>
SfoArg == <<"s", "f", "o", "1">>
BruArg == <<"b", "r", "u", "1">>

DigitChars == {"0", "1", "2", "3", "4", "5", "6", "7", "8", "9"}
DigitValue(c) ==
  CASE c = "0" -> 0 [] c = "1" -> 1 [] c = "2" -> 2 [] c = "3" -> 3 [] c = "4" -> 4
    [] c = "5" -> 5 [] c = "6" -> 6 [] c = "7" -> 7 [] c = "8" -> 8 [] c = "9" -> 9

\* the arguments tried: "auto", "all", a dc, two dcs, "all" with a dc, a word that
\* starts with a digit, and the strings of at most MaxDigits digits 0 and 1
Args ==
  {AutoArg, AllArg, SfoArg, SfoArg \o <<",">> \o BruArg, AllArg \o <<",">> \o SfoArg,
   <<"1", "a">>}
    \cup UNION {[1..n -> {"0", "1"}] : n \in 1..MaxDigits}

\* argv._: the url or "ls" alone, or the url and up to MostArgs words, the last of
\* them (one more than main accepts) a single one
Argvs ==
  {<<u>> \o a : u \in {UrlArg, LsArg}, a \in {<<>>}}
    \cup {<<UrlArg>> \o a : a \in UNION {[1..n -> Args] : n \in 1..(MostArgs - 1)}}
    \cup {<<UrlArg>> \o a \o <<AutoArg>> : a \in [1..(MostArgs - 1) -> Args]}

\* the values of --verify-timeout tried: none, "1s", and a word that is no time
VerifyTimeouts == {<<>>, <<(<<"1", "s">>)>>, <<(<<"x">>)>>}

\* /^\d+$/.test(v)
isNumeric(v) == Len(v) >= 1 /\ \A i \in DOMAIN v : v[i] \in DigitChars

isMinOrMaxArgument(v) == v = AutoArg \/ isNumeric(v)

\* Number(v) of a string of digits
RECURSIVE Number(_)
Number(v) ==
  IF v = <<>> THEN 0 ELSE 10 * Number(SubSeq(v, 1, Len(v) - 1)) + DigitValue(v[Len(v)])

\* "converts "3" to 3, and "auto" to 0": return v === AUTO ? v : Number(v)
toMin(v) == IF v = AutoArg THEN AUTO ELSE Number(v)

\* return v === AUTO ? v : Number(v)
toMax(v) == IF v = AutoArg THEN AUTO ELSE Number(v)

\* dcIdOrMin.split(',')
RECURSIVE Split(_)
Split(v) ==
  IF \A i \in DOMAIN v : v[i] # ","
  THEN <<v>>
  ELSE LET k == CHOOSE i \in DOMAIN v : v[i] = "," /\ \A j \in 1..(i - 1) : v[j] # ","
       IN <<SubSeq(v, 1, k - 1)>> \o Split(SubSeq(v, k + 1, Len(v)))

\* normalizeRegionsList of util/dcs: "all" alone is every dc; a word that is no dc
\* is INVALID_ID; "all" beside a dc is INVALID_ALL
DcOf(v) == IF v = SfoArg THEN "sfo1" ELSE "bru1"
normalizeRegionsList(list) ==
  LET named == SelectSeq(list, LAMBDA v : v # AllArg)
      all == \E i \in DOMAIN list : list[i] = AllArg
  IN
  IF \E i \in DOMAIN named : named[i] \notin {SfoArg, BruArg}
  THEN [code |-> "INVALID_ID", dcs |-> <<>>]
  ELSE IF all /\ named # <<>> THEN [code |-> "INVALID_ALL", dcs |-> <<>>]
  ELSE IF all THEN [code |-> "ok", dcs |-> <<"sfo1", "bru1">>]
  ELSE [code |-> "ok", dcs |-> [i \in DOMAIN named |-> DcOf(named[i])]]

\* what main makes of argv._: return 1 after an error, or dcIds, min and max
Rejected(msg) == [ok |-> FALSE, error |-> msg, dcIds |-> <<>>, min |-> 0, max |-> 0]
Resolved(dcs, min, max) == [ok |-> TRUE, error |-> "", dcIds |-> dcs, min |-> min, max |-> max]

\* main, lines 168-216: the dcs, then min and max where the legacy form has not set
\* them
ResolveDcs(a) ==
  LET r == normalizeRegionsList(Split(a[2])) IN
  IF r.code # "ok" THEN Rejected(r.code)
  ELSE IF Len(a) >= 3
  THEN IF ~isMinOrMaxArgument(a[3]) THEN Rejected("Invalid <min> parameter")
       ELSE IF Len(a) >= 4
       THEN IF isMinOrMaxArgument(a[4])
            THEN Resolved(r.dcs, toMin(a[3]), toMax(a[4]))
            ELSE Rejected("Invalid <max> parameter")
       ELSE Resolved(r.dcs, toMin(a[3]), IF toMin(a[3]) = AUTO THEN AUTO ELSE toMin(a[3]))
  ELSE Resolved(r.dcs, 0, AUTO)

\* main, lines 101-216
ResolveArgs(a) ==
  IF a[1] = LsArg THEN Rejected("scale-ls")
  ELSE IF Len(a) < 2 THEN Rejected("expects at least two arguments")
  ELSE IF Len(a) > MostArgs THEN Rejected("expects at most four arguments")
  ELSE IF isMinOrMaxArgument(a[2])
  THEN \* the legacy form <min> [max]; dcIdOrMin = "all"
       LET all == normalizeRegionsList(Split(AllArg)).dcs IN
       IF Len(a) >= 3
       THEN IF ~isMinOrMaxArgument(a[3]) THEN Rejected("Expected a <max> argument")
            ELSE IF Len(a) > 3 THEN Rejected("Invalid number of arguments")
            ELSE Resolved(all, toMin(a[2]), toMax(a[3]))
       ELSE IF toMin(a[2]) = AUTO THEN Resolved(all, 0, AUTO)
            ELSE Resolved(all, toMin(a[2]), toMin(a[2]))
  ELSE ResolveDcs(a)

\* Number.isInteger(ms(v)), ms of the ms package: a number of milliseconds for
\* digits, or for digits and a unit; else undefined
IsTime(v) ==
  \/ isNumeric(v)
  \/ Len(v) >= 2 /\ isNumeric(SubSeq(v, 1, Len(v) - 1)) /\ v[Len(v)] \in {"s", "m"}

Ms(v) ==
  IF isNumeric(v) THEN Number(v)
  ELSE Number(SubSeq(v, 1, Len(v) - 1)) * (IF v[Len(v)] = "s" THEN 1000 ELSE 60000)

\* main, lines 123-131: the two checks of the options; "" if they pass
CheckOptions(nv, vt) ==
  IF vt # <<>> /\ nv THEN "cannot be used at once"
  ELSE IF vt # <<>> /\ ~IsTime(vt[1]) THEN "Invalid time string"
  ELSE ""

\* the scale command with its words still to read
InitArgs ==
  /\ cmd = "scale" /\ pc = "parse"
  /\ argv \in Argvs /\ lookups = 0
  /\ noVerify \in BOOLEAN
  /\ verifyTimeout \in VerifyTimeouts
  /\ timeout = IF verifyTimeout # <<>> /\ IsTime(verifyTimeout[1])
               THEN Ms(verifyTimeout[1]) \div 500
               ELSE TwoMinutes
  /\ dcOrder = <<>> /\ scale = NoData
  /\ depType = "NPM" /\ readyState = "READY"
  /\ stream = <<>> /\ streamEnd = "end"
  /\ InitCommon

\* main from its first line to `await now.findDeployment(id)`
ParseArgs ==
  /\ alive /\ cmd = "scale" /\ pc = "parse"
  /\ LET counted == argv[1] # LsArg /\ Len(argv) >= 2 /\ Len(argv) <= MostArgs
         r == IF counted /\ CheckOptions(noVerify, verifyTimeout) # ""
              THEN Rejected(CheckOptions(noVerify, verifyTimeout))
              ELSE ResolveArgs(argv)
     IN
     IF r.ok
     THEN /\ dcOrder' = r.dcIds
          /\ scale' = [dc \in Range(r.dcIds) |-> [min |-> r.min, max |-> r.max]]
          /\ lookups' = lookups + 1
          /\ pc' = "findDeployment"
          /\ UNCHANGED <<output, returned>>
     ELSE /\ output' = Append(output, <<"error", r.error>>)
          /\ returned' = <<1>>
          /\ pc' = "done"
          /\ UNCHANGED <<dcOrder, scale, lookups>>
  /\ UNCHANGED <<argv, verifyTimeout, cmd, timeout, noVerify, depType, readyState,
                 streamEnd, clock, start, intendedScaleDcs, remainingMatches, data,
                 remaining, spinner, onExitVars, exitVars, waitResult, threw, streamVars,
                 fetches, sleeps, mutations, seen>>

\* mutant: the check for a static deployment left out
FindDeployment_noStaticCheck ==
  /\ alive /\ cmd = "scale" /\ pc = "findDeployment"
  /\ \/ /\ output' = Append(output, <<"error", "Failed to find deployment">>)
        /\ returned' = <<1>> /\ pc' = "done"
        /\ UNCHANGED <<depType, readyState, threw>>
     \/ /\ threw' = "LookupError" /\ pc' = "done"
        /\ UNCHANGED <<depType, readyState, output, returned>>
     \/ /\ depType' \in {"STATIC", "NPM", "BINARY"}
        /\ readyState' \in {"READY", "ERROR"}
        /\ IF readyState' = "ERROR"
           THEN /\ output' = Append(output, <<"error", "Cannot scale a deployment in the ERROR state">>)
                /\ returned' = <<1>> /\ pc' = "done"
           ELSE /\ pc' = "setScale"
                /\ UNCHANGED <<output, returned>>
        /\ UNCHANGED threw
  /\ UNCHANGED <<argVars, cmd, scale, dcOrder, timeout, noVerify, streamEnd, clock, start,
                 intendedScaleDcs, remainingMatches, data, remaining, spinner, onExitVars,
                 exitVars, waitResult, streamVars, fetches, sleeps, mutations, seen>>

\* findDeployment answers; then main up to `await setScale(...)`.  readyState
\* stands for deployment.state here
FindDeployment ==
  /\ alive /\ cmd = "scale" /\ pc = "findDeployment"
  /\ \/ \* 404
        /\ output' = Append(output, <<"error", "Failed to find deployment">>)
        /\ returned' = <<1>> /\ pc' = "done"
        /\ UNCHANGED <<depType, readyState, threw>>
     \/ \* any other error is thrown on
        /\ threw' = "LookupError" /\ pc' = "done"
        /\ UNCHANGED <<depType, readyState, output, returned>>
     \/ \* the deployment
        /\ depType' \in {"STATIC", "NPM", "BINARY"}
        /\ readyState' \in {"READY", "ERROR"}
        /\ IF depType' = "STATIC"
           THEN /\ output' = Append(output, <<"error", "Scaling rules cannot be set on static deployments">>)
                /\ returned' = <<1>> /\ pc' = "done"
           ELSE IF readyState' = "ERROR"
           THEN /\ output' = Append(output, <<"error", "Cannot scale a deployment in the ERROR state">>)
                /\ returned' = <<1>> /\ pc' = "done"
           ELSE /\ pc' = "setScale"
                /\ UNCHANGED <<output, returned>>
        /\ UNCHANGED threw
  /\ UNCHANGED <<argVars, cmd, scale, dcOrder, timeout, noVerify, streamEnd, clock, start,
                 intendedScaleDcs, remainingMatches, data, remaining, spinner, onExitVars,
                 exitVars, waitResult, streamVars, fetches, sleeps, mutations, seen>>

NextArgs == ParseArgs \/ FindDeployment \/ SetScale

SpecArgs == InitArgs /\ [][NextArgs]_vars
\* ================================================================ claims

\* the set of dcs the running wait still has to match
Unconverged == IF cmd = "scale" THEN intendedScaleDcs ELSE remainingMatches

\* a fetch of the wait has been answered with a snapshot, now in data
Answered == fetches >= 1 /\ pc # "fetch" /\ waitResult # "FetchError"
WaitEnded == waitResult \notin {"none", "running"}

\* the constraint of dc as the specification reads it: "auto" as a min is 0, as a
\* max unbounded
MinOf(dc) == IF scale[dc].min = AUTO THEN 0 ELSE scale[dc].min
Within(dc, d) ==
  /\ dc \in DOMAIN d
  /\ MinOf(dc) <= d[dc]
  /\ (scale[dc].max = AUTO \/ d[dc] <= scale[dc].max)

\* this step is the answer to a fetch, and the loop's check reaches dc in it: dc is
\* still to match, the snapshot has it, and (scale command) no dc before it in the
\* iteration is missing from the snapshot
Checks(dc) ==
  /\ pc = "fetch" /\ pc' # "fetch" /\ alive'
  /\ waitResult' \notin {"FetchError", "TypeError"}
  /\ dc \in Unconverged
  /\ dc \in DOMAIN data'
  /\ cmd = "scale" =>
       \A i, j \in DOMAIN dcOrder :
         (dcOrder[j] = dc /\ i < j /\ dcOrder[i] \in Unconverged) => dcOrder[i] \in DOMAIN data'
Converges(dc) == dc \notin Unconverged'

\* C1 as stated: with a positive deadline, if the first snapshot reports every
\* constrained region with a count within [min, max], the wait of either command
\* returns success after that one fetch, without a sleep.
C1_AsStated ==
  (Answered /\ fetches = 1 /\ timeout > 0 /\ \A dc \in DOMAIN scale : Within(dc, data))
    => (waitResult = "success" /\ sleeps = 0)

\* C1 amended: the scale command's wait returns success after one fetch and no sleep
\* when the first snapshot has every constrained region within [min, max]; the
\* deploy command's wait does so when the constraint set is not empty and the first
\* snapshot has every constrained region with a count >= 1 and >= min.
C1_FirstSnapshotSuffices ==
  (Answered /\ fetches = 1 /\ timeout > 0
     /\ IF cmd = "scale"
        THEN \A dc \in DOMAIN scale : Within(dc, data)
        ELSE /\ DOMAIN scale # {}
             /\ \A dc \in DOMAIN scale :
                  dc \in DOMAIN data /\ data[dc] >= 1 /\ data[dc] >= scale[dc].min)
    => (waitResult = "success" /\ sleeps = 0)

C1_Witness ==
  /\ cmd = "scale" /\ Cardinality(DOMAIN scale) = 2 /\ timeout > 0
  /\ fetches = 1 /\ sleeps = 0 /\ waitResult = "success"
  /\ \A dc \in DOMAIN scale : Within(dc, data)

\* C2 as stated: when the wait has ended (no fetch having failed) and a constrained
\* region was in no snapshot, the wait ended with the timeout error and that region
\* is among the regions still unconverged.
C2_AsStated ==
  (WaitEnded /\ waitResult # "FetchError")
    => \A dc \in DOMAIN scale \ seen : waitResult = "Timeout" /\ dc \in Unconverged

\* C3: the unconverged set is every constrained region when the wait starts; from
\* then on no step adds a region to it (so its size never grows), whatever the
\* snapshots report.
C3_Monotone ==
  [][/\ (waitResult = "none" /\ waitResult' # "none") => Unconverged' = DOMAIN scale
     /\ waitResult # "none" => Unconverged' \subseteq Unconverged]_vars

\* a region matched by an earlier snapshot is reported out of its bounds by a later
\* one and stays out of the set, while another region is still awaited
C3_Witness ==
  /\ cmd = "deploy" /\ fetches = 2 /\ pc = "sleep"
  /\ \E dc \in DOMAIN scale :
       /\ dc \notin Unconverged /\ Unconverged # {}
       /\ dc \in DOMAIN data /\ data[dc] < MathMax(1, scale[dc].min)

\* C4 as stated: in every check of either command a count equal to min or to max
\* converges, and a count of min - 1 or max + 1 does not.
C4_AsStated ==
  [][\A dc \in DOMAIN scale :
       Checks(dc) =>
         /\ (scale[dc].min # AUTO /\ data'[dc] = scale[dc].min) => Converges(dc)
         /\ (scale[dc].max # AUTO /\ data'[dc] = scale[dc].max) => Converges(dc)
         /\ (scale[dc].min # AUTO /\ data'[dc] = scale[dc].min - 1) => ~Converges(dc)
         /\ (scale[dc].max # AUTO /\ data'[dc] = scale[dc].max + 1) => ~Converges(dc)]_vars

\* C4 amended: in every check of the scale command a count equal to min or to max
\* converges and a count of min - 1 or max + 1 does not; in every check of the deploy
\* command a count converges exactly when it is >= 1 and >= min, so a count of
\* min - 1 never converges, a count equal to min or max converges only when it is
\* not 0, and a count of max + 1 converges.
C4_InclusiveBounds ==
  [][\A dc \in DOMAIN scale :
       Checks(dc) =>
         IF cmd = "scale"
         THEN /\ (scale[dc].min # AUTO /\ data'[dc] = scale[dc].min) => Converges(dc)
              /\ (scale[dc].max # AUTO /\ data'[dc] = scale[dc].max) => Converges(dc)
              /\ (scale[dc].min # AUTO /\ data'[dc] = scale[dc].min - 1) => ~Converges(dc)
              /\ (scale[dc].max # AUTO /\ data'[dc] = scale[dc].max + 1) => ~Converges(dc)
         ELSE /\ Converges(dc) <=> (data'[dc] >= 1 /\ data'[dc] >= scale[dc].min)
              /\ data'[dc] = scale[dc].min - 1 => ~Converges(dc)
              /\ (scale[dc].max # AUTO /\ data'[dc] = scale[dc].max + 1) => Converges(dc)]_vars

\* the scale command has matched a region on a count equal to its max, and left
\* another, reported one above its max, unmatched
C4_Witness ==
  /\ cmd = "scale" /\ fetches = 1 /\ pc = "sleep"
  /\ \E dc \in DOMAIN scale \ intendedScaleDcs :
       scale[dc].max # AUTO /\ dc \in DOMAIN data /\ data[dc] = scale[dc].max
  /\ \E dc \in intendedScaleDcs :
       scale[dc].max # AUTO /\ dc \in DOMAIN data /\ data[dc] = scale[dc].max + 1

\* C5: in the scale command, a region whose max is "auto" converges in a check
\* exactly when the count observed is >= min.
C5_UnboundedMax ==
  [][\A dc \in DOMAIN scale :
       (cmd = "scale" /\ scale[dc].max = AUTO /\ Checks(dc))
         => (Converges(dc) <=> data'[dc] >= MinOf(dc))]_vars

\* a region with max "auto" matched on the largest count, another left below min
C5_Witness ==
  /\ cmd = "scale" /\ fetches = 1 /\ pc = "sleep"
  /\ \E dc \in DOMAIN scale \ intendedScaleDcs :
       scale[dc].max = AUTO /\ dc \in DOMAIN data /\ data[dc] = MaxInstances + 1
  /\ \E dc \in intendedScaleDcs :
       scale[dc].max = AUTO /\ dc \in DOMAIN data /\ data[dc] < MinOf(dc)
\* ---- the build-event loop

Printed(msg) == \E i \in DOMAIN output : output[i] = <<msg, "">>
Times(msg) == Cardinality({i \in DOMAIN output : output[i] = <<msg, "">>})
Last(s) == s[Len(s)]
SawReady == \E i \in DOMAIN delivered : delivered[i] = StateChange("READY")
SawError == \E i \in DOMAIN delivered : delivered[i] = StateChange("ERROR")

\* the line an event is to be shown as; a state-change is not shown
IsEventLine(line) == line[1] \in {"Building", "command", "line"}
RECURSIVE Lines(_)
Lines(events) ==
  IF events = <<>> THEN <<>>
  ELSE LET e == Head(events) IN
    (CASE e.type = "build-start" -> <<<<"Building", "">>>>
       [] e.type = "command" -> <<<<"command", e.value>>>>
       [] e.type \in {"stdout", "stderr"} -> <<<<"line", e.value>>>>
       [] OTHER -> <<>>) \o Lines(Tail(events))

\* C6: the loop shows the events in the order delivered; a state-change other than
\* READY or ERROR does not stop it; "Build completed" is printed once, at the first
\* READY, and no event after that READY is read or shown.
C6_EventOrder ==
  /\ SelectSeq(output, IsEventLine) = Lines(delivered)
  /\ Times("Build completed") = (IF SawReady THEN 1 ELSE 0)
  /\ SawReady => (Last(delivered) = StateChange("READY") /\ pc # "events")
  /\ \A i \in DOMAIN delivered :
       delivered[i] = StateChange("READY") => i = Len(delivered)
  /\ (pc \notin {"created", "done"} /\ ~SawReady /\ ~SawError /\ stream # <<>>)
       => pc = "events"

\* BUILDING, then READY, were read; the event after READY is still in the stream
\* when the process has exited
C6_Witness ==
  /\ delivered = <<StateChange("BUILDING"), StateChange("READY")>>
  /\ stream = <<Text("stdout")>>
  /\ Times("Build completed") = 1
  /\ ~alive /\ exitCode = <<0>>

\* C7 as stated: a stream whose last event read is ERROR gives the BuildFailed
\* outcome and not ConnectionError; a stream that ends or fails with no READY or
\* ERROR read gives ConnectionError, not BuildFailed and not success.
C7_AsStated ==
  /\ SawError => (Printed("Build failed") /\ threw # "ConnectionError")
  /\ (cmd = "deploy" /\ depType # "static" /\ readyState # "READY"
        /\ pc \notin {"created", "events"} /\ ~SawReady /\ ~SawError)
       => (threw = "ConnectionError" /\ ~Printed("Build failed")
             /\ ~Printed("Deployment ready"))

\* C8: once ERROR is read, "Build failed" is printed once and is the last thing
\* printed, ERROR is the last event read, no snapshot is fetched, "Deployment
\* ready" is not printed, and the exit code is not 0.
C8_BuildFailedStops ==
  SawError =>
    /\ Times("Build failed") = 1
    /\ Last(output) = <<"Build failed", "">>
    /\ Last(delivered) = StateChange("ERROR")
    /\ pc = "halted"
    /\ fetches = 0 /\ waitResult = "none"
    /\ ~Printed("Deployment ready")
    /\ pendingExit = <<1>>
    /\ exitCode # <<0>>
    /\ ~alive => exitCode # <<>>

\* ERROR was read with events left in the stream, and the process exited with 1
C8_Witness ==
  /\ SawError /\ stream # <<>> /\ Len(delivered) >= 2
  /\ ~alive /\ exitCode = <<1>>

\* ---- interruption

\* C9: over every sequence of SIGINT, SIGTERM and 'exit' events the abort callback
\* of the registered wait runs at most once, and prints its message at most once.
C9_AbortOnce ==
  /\ aborts <= 1
  /\ Times("Verification aborted") = aborts
  /\ aborts = 1 => exitFlag

\* a signal ran the callback, and the 'exit' event its exit(0) raised found onExit_
\* still registered
C9_Witness ==
  /\ cmd = "scale" /\ aborts = 1
  /\ ~alive /\ exitCode = <<0>> /\ "exit" \in listeners

\* C10 as stated: while a wait of either command runs exactly one handler is
\* registered, registered once; after the wait none is.
C10_AsStated ==
  /\ registrations <= 1
  /\ waitResult = "running" => (registrations = 1 /\ listeners = Signals \cup {"exit"})
  /\ WaitEnded => listeners = {}

\* C10 amended: the scale command registers its handler once when its wait starts
\* and removes it on every way out of the wait (success, timeout, fetch error); the
\* deploy command registers none; so at most one handler is registered at any time
\* and none once a wait has ended.
C10_ScopedHandler ==
  /\ registrations <= 1
  /\ cmd = "scale" =>
       /\ waitResult = "none" => (registrations = 0 /\ listeners = {})
       /\ waitResult = "running" =>
            (registrations = 1 /\ listeners = Signals \cup {"exit"})
       /\ WaitEnded => (registrations = 1 /\ listeners = {})
  /\ cmd = "deploy" => (registrations = 0 /\ listeners = {})

\* the scale command's wait ended on the error of its second fetch
C10_Witness ==
  /\ cmd = "scale" /\ waitResult = "FetchError" /\ fetches = 2
  /\ registrations = 1 /\ listeners = {}

\* ---- the waits, continued

\* the lines printed after the first "Verification aborted"
AfterAbort ==
  {j \in DOMAIN output :
     \E i \in DOMAIN output : i < j /\ output[i] = <<"Verification aborted", "">>}

\* C11 as stated: once the abort callback of the scale command has run, the answer
\* to the fetch in flight is dropped: no "Verified" line, no new spinner and no
\* "Scale state verified" follows "Verification aborted", and main does not return
\* the success value.
C11_AsStated ==
  aborts >= 1 =>
    /\ ~spinner
    /\ \A j \in AfterAbort : output[j][1] \notin {"Verified", "Scale state verified"}
    /\ returned = <<>>

\* this step is the answer to a fetch with a snapshot
Answers == pc = "fetch" /\ pc' # "fetch" /\ waitResult' # "FetchError"

\* C12 as stated: in either command, when a snapshot lacks a region still to match,
\* the cycle raises no error, the region stays in the unconverged set, and the loop
\* goes to its sleep for the next cycle.
C12_AsStated ==
  [][\A dc \in Unconverged :
       (Answers /\ dc \notin DOMAIN data')
         => (waitResult' = "running" /\ dc \in Unconverged' /\ pc' = "sleep")]_vars

\* C13 as stated: when a snapshot fetch fails and the deadline has not passed, the
\* wait does not end: the unconverged set is as it was and the loop goes to its
\* sleep, to fetch again in the next cycle.
C13_AsStated ==
  [][((ScaleFetchFails \/ DeployFetchFails) /\ clock' < start + timeout)
       => (waitResult' = "running" /\ Unconverged' = Unconverged /\ pc' = "sleep")]_vars

\* the "Verified" lines printed for dc
VerifiedCount(out, dc) == Cardinality({i \in DOMAIN out : out[i] = <<"Verified", dc>>})

\* C14: in every step a "Verified" line is printed for a region exactly when the
\* step removes that region from the unconverged set, one line per removal; no
\* region has more than one such line, and only constrained regions have one.
C14_NotifyOnce ==
  [][\A dc \in Regions :
       /\ VerifiedCount(output', dc) - VerifiedCount(output, dc)
            = (IF dc \in Unconverged /\ dc \notin Unconverged' THEN 1 ELSE 0)
       /\ VerifiedCount(output', dc) <= 1
       /\ VerifiedCount(output', dc) = 1 => dc \in DOMAIN scale]_vars

\* the deploy command matched one region in its first cycle and the other in its
\* second, whose snapshot has the first region below its minimum again
C14_Witness ==
  /\ cmd = "deploy" /\ fetches = 2 /\ waitResult = "success"
  /\ \A dc \in Regions : VerifiedCount(output, dc) = 1
  /\ \E dc \in Regions : ~matchMinPresets(scale[dc], data[dc])

\* C15 as stated, its outcomes: a wait whose fetches were all answered ends only
\* with success, the unconverged set empty, or with the timeout error, thrown by a
\* loop iteration that found the deadline reached; and no fetch is issued by an
\* iteration that finds the deadline reached.
C15_AsStated ==
  /\ (WaitEnded /\ waitResult # "FetchError") =>
       \/ waitResult = "success" /\ Unconverged = {}
       \/ waitResult = "Timeout" /\ start + timeout <= clock
  /\ pc = "fetch" => clock < start + timeout

\* C16 as stated: each failure is reported as what it is: the verification timeout
\* only when the wait ran into its deadline (never for a failed fetch or another
\* error of the deploy command's verification), the build failure only when ERROR
\* was read, the cancellation only when the abort callback ran.
C16_AsStated ==
  /\ Printed("Instance verification timed out") => waitResult = "Timeout"
  /\ Printed("Build failed") => SawError
  /\ Printed("Verification aborted") => aborts >= 1
  /\ threw = "Timeout" => waitResult = "Timeout"

\* C17: the scale command sends its PATCH at most once, and none once a snapshot
\* fetch has been issued or the wait has begun: verification, abort and timeout
\* only read.
C17_MutateOnce ==
  [][cmd = "scale" =>
       /\ mutations' <= 1
       /\ fetches' >= 1 => mutations' = 1
       /\ (fetches >= 1 \/ waitResult # "none") => mutations' = mutations]_vars

\* the wait ran into its deadline after two fetches, an abort having been asked for
C17_Witness ==
  /\ cmd = "scale" /\ mutations = 1 /\ fetches = 2 /\ waitResult = "Timeout" /\ aborts = 1

\* C18: with --no-verify, or (scale command) a BINARY deployment, no snapshot is
\* fetched and no wait begins: the scale command returns 0 right after it printed
\* that the rules are saved, and the deploy command prints "Deployment ready" right
\* after "Build completed" and exits with 0.
C18_NoVerify ==
  /\ (cmd = "scale" /\ (noVerify \/ depType = "BINARY")) =>
       /\ fetches = 0 /\ waitResult = "none" /\ ~spinner /\ registrations = 0
       /\ Printed("Scale rules saved") =>
            (output = <<<<"Scale rules saved", "">>>> /\ pc = "done" /\ returned = <<0>>)
  /\ (cmd = "deploy" /\ noVerify) =>
       /\ fetches = 0 /\ waitResult = "none" /\ ~spinner
       /\ SawReady =>
            /\ Len(output) >= 2
            /\ output[Len(output) - 1] = <<"Build completed", "">>
            /\ output[Len(output)] = <<"Deployment ready", "">>
            /\ pendingExit = <<0>>
            /\ exitCode # <<1>>

\* the deploy command, with --no-verify and a region to scale to, has exited with 0
\* after READY
C18_Witness ==
  /\ cmd = "deploy" /\ noVerify /\ DOMAIN scale # {}
  /\ SawReady /\ Printed("Deployment ready") /\ ~alive /\ exitCode = <<0>>

\* ---- the arguments of the scale command

\* argv._ is of the legacy form <url> <min> [max], min and max numeric or "auto"
LegacyForm ==
  /\ Len(argv) \in {2, 3} /\ argv[1] = UrlArg
  /\ \A i \in 2..Len(argv) : isMinOrMaxArgument(argv[i])

\* the same rules in the form <url> all <min> [max]
AllForm == <<argv[1], AllArg>> \o SubSeq(argv, 2, Len(argv))

\* C19 as stated: what main resolves from the legacy form <url> <min> [max], its
\* options passing, is what it resolves from <url> all <min> [max]: the same dcs,
\* min and max.
C19_AsStated ==
  (pc # "parse" /\ LegacyForm /\ CheckOptions(noVerify, verifyTimeout) = "") =>
    LET r == ResolveArgs(AllForm) IN
    /\ r.ok /\ lookups = 1
    /\ dcOrder = r.dcIds
    /\ \A dc \in DOMAIN scale : scale[dc].min = r.min /\ scale[dc].max = r.max

\* the word main reads <min> from, if there is one
HasMinWord == isMinOrMaxArgument(argv[2]) \/ Len(argv) >= 3
MinWord == IF isMinOrMaxArgument(argv[2]) THEN argv[2] ELSE argv[3]

\* C20 as stated: for every argument list main accepts, the min it hands on is the
\* number of the <min> word, 0 where that word is "auto", so a non-negative
\* integer, and the max is a non-negative integer or "auto".
C20_AsStated ==
  (pc = "setScale" /\ argv # <<>>) =>
    \A dc \in DOMAIN scale :
      /\ HasMinWord =>
           scale[dc].min = (IF MinWord = AutoArg THEN 0 ELSE Number(MinWord))
      /\ scale[dc].min \in Nat
      /\ scale[dc].max \in Nat \cup {AUTO}

\* ---- the scale command's wait, region by region

\* C21 as stated: in every cycle of the scale command's wait, each region still to
\* match that the snapshot reports with a count within its bounds is removed from
\* the set in that cycle, whichever other regions the snapshot lacks and whatever
\* the order of the regions.
C21_AsStated ==
  [][(cmd = "scale" /\ Answers) =>
       \A dc \in intendedScaleDcs : Within(dc, data') => dc \notin intendedScaleDcs']_vars

\* C22: in the scale command, the set starts as every region of the constraints, a
\* region leaves it only in a step that answers a fetch with a snapshot reporting the
\* region within its bounds ("auto" as a min read as 0, as a max as unbounded),
\* and success is returned only with the set empty: so only if every region was
\* reported within its bounds by some snapshot of this wait.
C22_SuccessIsObserved ==
  [][cmd = "scale" =>
       /\ (waitResult = "none" /\ waitResult' # "none") => intendedScaleDcs' = DOMAIN scale
       /\ \A dc \in intendedScaleDcs \ intendedScaleDcs' : Answers /\ Within(dc, data')
       /\ waitResult' = "success" =>
            (intendedScaleDcs' = {} /\ waitResult \in {"running", "success"})]_vars

\* success at the second fetch for two regions, the first of them matched by the
\* first snapshot and reported above its max by the second
C22_Witness ==
  /\ cmd = "scale" /\ waitResult = "success" /\ fetches = 2
  /\ Cardinality(DOMAIN scale) = 2
  /\ \E dc \in DOMAIN scale \cap DOMAIN data :
       scale[dc].max # AUTO /\ data[dc] > scale[dc].max

\* ---- the deploy command, from the build to "Deployment ready"

\* C23 as stated: for a deployment that is not static, "Deployment ready" is printed
\* only if the deployment was created READY or READY was read from the stream, and
\* (the deployment built here, --no-verify not set) only once the verification has
\* returned success; no snapshot is fetched before READY was read.
C23_AsStated ==
  (cmd = "deploy" /\ depType # "static") =>
    /\ Printed("Deployment ready") => (readyState = "READY" \/ SawReady)
    /\ (Printed("Deployment ready") /\ readyState # "READY" /\ ~noVerify)
         => waitResult = "success"
    /\ fetches >= 1 => SawReady

\* ---- the scale command turned down

\* argv._ or the options are among those the command turns down: "ls", too few or
\* too many words, both options at once, a --verify-timeout that is no time, or a
\* word that is neither a number, "auto", nor a list of dcs
BadArguments ==
  \/ argv[1] = LsArg
  \/ Len(argv) < 2 \/ Len(argv) > 4
  \/ verifyTimeout # <<>> /\ noVerify
  \/ verifyTimeout # <<>> /\ ~IsTime(verifyTimeout[1])
  \/ \E i \in 2..Len(argv) :
       ~isMinOrMaxArgument(argv[i]) /\ normalizeRegionsList(Split(argv[i])).code # "ok"

\* the deployment looked up is one the command turns down, or there is none
BadDeployment ==
  \/ lookups = 1 /\ pc # "findDeployment" /\ (depType = "STATIC" \/ readyState = "ERROR")
  \/ Printed("Failed to find deployment")

\* C24: a scale command whose arguments are turned down returns 1 having sent no
\* request at all; one whose deployment is not found, static, or in the ERROR state
\* returns 1 having sent no PATCH; and no PATCH is sent before the arguments are
\* read and the deployment is found.
C24_RejectedBeforeSetScale ==
  /\ (pc # "parse" /\ argv # <<>> /\ BadArguments) =>
       (returned = <<1>> /\ pc = "done" /\ lookups = 0 /\ mutations = 0 /\ fetches = 0)
  /\ BadDeployment =>
       (returned = <<1>> /\ pc = "done" /\ mutations = 0 /\ fetches = 0)
  /\ pc \in {"parse", "findDeployment"} => mutations = 0

\* the words and options were accepted, and the deployment found is static
C24_Witness ==
  /\ argv = <<UrlArg, SfoArg, <<"1">>, AutoArg>> /\ verifyTimeout # <<>>
  /\ lookups = 1 /\ depType = "STATIC" /\ returned = <<1>> /\ mutations = 0

\* ---- the display of the scale command's wait

\* C25: from the start of the scale command's wait on, the regions waitDcs shows
\* as remaining are the regions waitForScale still has to match, after every
\* cycle; and once waitForScale has ended, by return or by error, no spinner runs.
C25_DisplayFollowsSet ==
  cmd = "scale" =>
    /\ waitResult # "none" => remaining = intendedScaleDcs
    /\ WaitEnded => ~spinner

\* one region was verified, then the wait ran into its deadline with the other
\* still shown
C25_Witness ==
  /\ cmd = "scale" /\ waitResult = "Timeout" /\ ~spinner
  /\ Cardinality(DOMAIN scale) = 2 /\ Cardinality(remaining) = 1
  /\ \E dc \in DOMAIN scale \ remaining : VerifiedCount(output, dc) = 1
====
